---- MODULE Spec2Model ----
(***************************************************************************)
(* The shared interval scheduler of useInterval.ts: the process-wide       *)
(* `schedulers` map of delay -> timer group, the groups' callback arrays   *)
(* and timeouts, the per-hook interval managers (doSchedule / doCancel /   *)
(* effect), and the dispatch loop `invokeCallbacks`, whose callbacks are   *)
(* user code that may call schedule / cancel reentrantly.                  *)
(***************************************************************************)
EXTENDS Integers, Sequences, FiniteSets, TLC

\* ---------------------------------------------------------------- bounds
NumHandles == 2
MaxCbs == 3
MaxGroups == 2
MaxErrors == 1
NumFns == 2
MaxWraps == 2
NumManagers == 2
MaxReentry == 2
MaxTimeouts == 4

Handles == 1..NumHandles
CbIds == 1..MaxCbs
GroupIds == 1..MaxGroups
\* An integer delay passed to schedule(cb, ms) is written hi * 2^16 + lo with
\* lo in 0..65535, so that delays outside the int32 range can be drawn.
Half == 65536
Delay(hi, lo) == [hi |-> hi, lo |-> lo]
\* -1, 0, 1, -2^32 + 1 and 2^31
RawDelays == {Delay(-1, Half - 1), Delay(0, 0), Delay(0, 1), Delay(-Half, 1),
              Delay(Half \div 2, 0)}

NoGroup == 0
NoCb == 0
\* `abort === undefined`
NoAbort == [g |-> NoGroup, cb |-> NoCb]
NoCall == [h |-> 0, op |-> "none"]

VARIABLES
  hstate,      \* per manager: "unmounted" (effect never ran), "attached", "detached"
  abort,       \* per manager: the `abort` closure of the running effect, or NoAbort
  schedulers,  \* the Map: delay key -> group id, NoGroup when the key is absent
  ms,          \* per group: the `ms` its closures captured
  callbacks,   \* per group: the `callbacks` array
  timers,      \* per group: number of pending setTimeout(invokeCallbacks, ms)
  nextGroup,   \* next unused group identity
  nextCb,      \* next unused identity of a wrapper closure () => { cb(...args) }
  owner,       \* per wrapper closure: the manager whose doSchedule created it
  disp,        \* the group whose invokeCallbacks is on the stack, or NoGroup
  idx,         \* next index of the array iterator of `for (const cb of callbacks)`
  running,     \* the callback whose body is executing, or NoCb
  startCbs,    \* callbacks in the dispatching group when its tick began
  invoked,     \* callbacks invoked so far in the current tick, in order
  thrown,      \* callbacks that threw in the current tick
  cancelled,   \* wrapper closures whose abort() has returned
  errorTasks,  \* pending setTimeout(() => { throw e }) tasks
  lastCall,    \* the schedule / cancel call made by the last step, if it was one
  \* useMetronome managers and the provider's metronomes
  mcleanup,    \* per manager: the `cleanup` closure as [key, cb], or NoCleanup
  mcallbacks,  \* per delay: the callbacks added to the metronome of that delay
  mnextWrap,   \* next unused identity of a wrapper closure () => { cb(...args) }
  madded,      \* per manager: what it added and has not removed since
  \* useHover managers
  hmounted,    \* per manager: its onMount layout effect is in force
  status,      \* per manager: the `status` of createHoverManager
  hovered,     \* per manager: the last value given to setHovered (useState(false))
  disabled,    \* per manager: manager.props.isDisabled
  subscribers, \* listeners of cancelHoverPubSub, in subscription order
  hoverManagerCount,
  blurAttached, \* window has the 'blur' listener cancelHover
  blurTwice,   \* addEventListener('blur', cancelHover) was called while attached
  hlog,        \* per manager: the handlers the last operation called, in order
  prevNote,    \* per manager: the last onHoverStart / onHoverEnd call before that
  hop,         \* the last operation on the hover managers
  \* useDebounce managers
  dmounted,    \* per manager: its effect is in force
  dtimeout,    \* per manager: the `timeout` variable, NoTimeout when never assigned
  dpending,    \* timeouts that setTimeout armed and that neither fired nor were cleared
  dnextTimeout, \* next unused timeout id
  downer,      \* per timeout id: the manager whose debounce armed it
  dlater,      \* timeouts followed by a debounce, cancel or unmount of their manager
  dfired,      \* timeouts that fired
  dclearedBy   \* per timeout id: the call whose clearTimeout found it pending

regVars == <<schedulers, ms, callbacks, timers, nextGroup>>
tickVars == <<disp, idx, running, startCbs, invoked, thrown>>
intervalVars == <<hstate, abort, schedulers, ms, callbacks, timers, nextGroup, nextCb,
                  owner, disp, idx, running, startCbs, invoked, thrown,
                  cancelled, errorTasks, lastCall>>
metronomeVars == <<mcleanup, mcallbacks, mnextWrap, madded>>
\* What the useInterval scheduler never touches.
hoverVars == <<hmounted, status, hovered, disabled, subscribers, hoverManagerCount,
               blurAttached, blurTwice, hlog, prevNote, hop>>
debounceVars == <<dmounted, dtimeout, dpending, dnextTimeout, downer, dlater, dfired,
                  dclearedBy>>
sideVars == <<metronomeVars, hoverVars, debounceVars>>
vars == <<intervalVars, sideVars>>

\* ------------------------------------------------------- pure helpers
Max(a, b) == IF a >= b THEN a ELSE b

Range(s) == {s[i] : i \in 1..Len(s)}

\* Array.prototype.indexOf: 0-based index of the first match, -1 when absent.
IndexOf(s, c) ==
  IF \E i \in 1..Len(s) : s[i] = c
  THEN (CHOOSE i \in 1..Len(s) : s[i] = c /\ \A j \in 1..(i - 1) : s[j] # c) - 1
  ELSE -1

SpliceFirst(s, index) == Tail(s)

\* callbacks.splice(index, 1) for a 0-based index inside the array.
Splice(s, index) ==
  [i \in 1..(Len(s) - 1) |-> IF i <= index THEN s[i] ELSE s[i + 1]]

\* `ms | 0`: the integer modulo 2^32, read as a signed 32-bit value.
ToInt32(rawMs) ==
  LET h == rawMs.hi % Half
      hs == IF h >= Half \div 2 THEN h - Half ELSE h
  IN hs * Half + rawMs.lo

\* Math.max(ms | 0, 0)
NormalizeDelay(rawMs) == Max(ToInt32(rawMs), 0)

DelayKeys == {NormalizeDelay(r) : r \in RawDelays}

\* The registry and its groups as one value, so that the steps of a handler
\* compose in the order the code runs them.
Registry ==
  [schedulers |-> schedulers, ms |-> ms, callbacks |-> callbacks,
   timers |-> timers, nextGroup |-> nextGroup]

\* setTimeout(invokeCallbacks, ms) by group g
SetTimeout(R, g) == [R EXCEPT !.timers[g] = @ + 1]

\* clearTimeout(timeout): cancels the group's pending timeout, if it has one.
ClearTimeout(R, g) == [R EXCEPT !.timers[g] = IF @ > 0 THEN @ - 1 ELSE 0]

\* schedulers.delete(ms) as run by a closure of group g
SchedulersDelete(R, g) == [R EXCEPT !.schedulers[R.ms[g]] = NoGroup]

\* getOrCreateScheduler(ms): the group now mapped at `key`
GetOrCreateScheduler(R, key) ==
  IF R.schedulers[key] # NoGroup
  THEN R
  ELSE [R EXCEPT !.schedulers[key] = R.nextGroup,
                 !.ms[R.nextGroup] = key,
                 !.callbacks[R.nextGroup] = << >>,
                 !.nextGroup = @ + 1]

SchedulerAddUnshift(R, g, c) ==
  IF IndexOf(R.callbacks[g], c) = -1
  THEN LET pushed == [R EXCEPT !.callbacks[g] = <<c>> \o @]
       IN IF Len(pushed.callbacks[g]) = 1 THEN SetTimeout(pushed, g) ELSE pushed
  ELSE R

\* scheduler(cb), up to the returned closure:
\*   if (callbacks.indexOf(cb) === -1 && callbacks.push(cb) === 1) timeout = setTimeout(...)
SchedulerAdd(R, g, c) ==
  IF IndexOf(R.callbacks[g], c) = -1
  THEN LET pushed == [R EXCEPT !.callbacks[g] = Append(@, c)]
       IN IF Len(pushed.callbacks[g]) = 1 THEN SetTimeout(pushed, g) ELSE pushed
  ELSE R

AbortFnAlwaysDelete(R, g, c) ==
  LET index == IndexOf(R.callbacks[g], c)
  IN IF index = -1
     THEN R
     ELSE LET cut == [R EXCEPT !.callbacks[g] = Splice(@, index)]
          IN ClearTimeout(SchedulersDelete(cut, g), g)

\* The closure scheduler(cb) returns:
\*   index = callbacks.indexOf(cb);
\*   if (index !== -1 && (callbacks.splice(index, 1), callbacks.length === 0)) {
\*     schedulers.delete(ms); clearTimeout(timeout) }
AbortFn(R, g, c) ==
  LET index == IndexOf(R.callbacks[g], c)
  IN IF index = -1
     THEN R
     ELSE LET cut == [R EXCEPT !.callbacks[g] = Splice(@, index)]
          IN IF Len(cut.callbacks[g]) = 0
             THEN ClearTimeout(SchedulersDelete(cut, g), g)
             ELSE cut

\* doCancel of a running effect: if (abort !== undefined) { abort(); abort = undefined }
DoCancelReg(R, h) ==
  IF abort[h] # NoAbort THEN AbortFn(R, abort[h].g, abort[h].cb) ELSE R

SetRegistry(R) ==
  /\ schedulers' = R.schedulers
  /\ ms' = R.ms
  /\ callbacks' = R.callbacks
  /\ timers' = R.timers
  /\ nextGroup' = R.nextGroup

\* History of a doCancel by manager h: abort() has returned for its closure.
NoteCancel(h) ==
  cancelled' = IF abort[h] # NoAbort THEN cancelled \cup {abort[h].cb} ELSE cancelled

\* JavaScript runs to completion: manager methods and effects run either from
\* the event loop (no dispatch on the stack) or from inside a callback body.
UserCodeRuns == disp = NoGroup \/ running # NoCb

\* ------------------------------------------------------- useMetronome state
\* The functions passed to start(cb, ms) without arguments, and the wrapper
\* closures start creates when arguments are bound.
MFns == 1..NumFns
MCbIds == 1..(NumFns + MaxWraps)
NoCleanup == [key |-> -1, cb |-> NoCb]

MetronomeInit ==
  /\ mcleanup = [h \in Handles |-> NoCleanup]
  /\ mcallbacks = [k \in DelayKeys |-> << >>]
  /\ mnextWrap = NumFns + 1
  /\ madded = [h \in Handles |-> {}]

\* ------------------------------------------------------- useHover state
Managers == 1..NumManagers
STATUS_NOT_HOVERED == 0
STATUS_HOVERED == 1
STATUS_HOVER_DISCARDED == 2
\* onHoverChange(true), onHoverStart(), onHoverChange(false), onHoverEnd()
Notes == {"changeTrue", "start", "changeFalse", "end"}
NoOp == [op |-> "none", m |-> 0]
\* The handlers whose code calls cancelHover(): none, or one of the four.
Reentrant == {{}} \cup {{n} : n \in Notes}

HoverInit ==
  /\ hmounted = [m \in Managers |-> FALSE]
  /\ status = [m \in Managers |-> STATUS_NOT_HOVERED]
  /\ hovered = [m \in Managers |-> FALSE]
  /\ disabled = [m \in Managers |-> FALSE]
  /\ subscribers = << >>
  /\ hoverManagerCount = 0
  /\ blurAttached = FALSE
  /\ blurTwice = FALSE
  /\ hlog = [m \in Managers |-> << >>]
  /\ prevNote = [m \in Managers |-> "none"]
  /\ hop = NoOp

\* ------------------------------------------------------- useDebounce state
TimeoutIds == 1..MaxTimeouts
NoTimeout == 0

DebounceInit ==
  /\ dmounted = [h \in Handles |-> FALSE]
  /\ dtimeout = [h \in Handles |-> NoTimeout]
  /\ dpending = {}
  /\ dnextTimeout = 1
  /\ downer = [t \in TimeoutIds |-> 0]
  /\ dlater = {}
  /\ dfired = {}
  /\ dclearedBy = [t \in TimeoutIds |-> "none"]

SideInit == MetronomeInit /\ HoverInit /\ DebounceInit

\* ------------------------------------------------------------ Init
Init ==
  /\ hstate = [h \in Handles |-> "unmounted"]
  /\ abort = [h \in Handles |-> NoAbort]
  /\ schedulers = [k \in DelayKeys |-> NoGroup]
  /\ ms = [g \in GroupIds |-> 0]
  /\ callbacks = [g \in GroupIds |-> << >>]
  /\ timers = [g \in GroupIds |-> 0]
  /\ nextGroup = 1
  /\ nextCb = 1
  /\ owner = [c \in CbIds |-> 0]
  /\ disp = NoGroup
  /\ idx = 0
  /\ running = NoCb
  /\ startCbs = {}
  /\ invoked = << >>
  /\ thrown = {}
  /\ cancelled = {}
  /\ errorTasks = 0
  /\ lastCall = NoCall
  /\ SideInit

\* ------------------------------------------------------------ actions
\* useInsertionEffect(manager.effect, emptyDeps) runs the effect once, when the
\* component mounts: doSchedule / doCancel become live, with a fresh `abort`.
Attach(h) ==
  /\ UserCodeRuns
  /\ hstate[h] = "unmounted"
  /\ hstate' = [hstate EXCEPT ![h] = "attached"]
  /\ abort' = [abort EXCEPT ![h] = NoAbort]
  /\ UNCHANGED <<regVars, nextCb, owner, tickVars, cancelled, errorTasks>>
  /\ lastCall' = NoCall
  /\ UNCHANGED sideVars

DetachNoCancel(h) ==
  /\ UserCodeRuns
  /\ hstate[h] = "attached"
  /\ hstate' = [hstate EXCEPT ![h] = "detached"]
  /\ UNCHANGED <<abort, regVars, nextCb, owner, tickVars, cancelled, errorTasks>>
  /\ lastCall' = NoCall
  /\ UNCHANGED sideVars

\* The effect's cleanup: doCancel(); doSchedule = doCancel = noop
Detach(h) ==
  /\ UserCodeRuns
  /\ hstate[h] = "attached"
  /\ SetRegistry(DoCancelReg(Registry, h))
  /\ NoteCancel(h)
  /\ abort' = [abort EXCEPT ![h] = NoAbort]
  /\ hstate' = [hstate EXCEPT ![h] = "detached"]
  /\ UNCHANGED <<nextCb, owner, disp, idx, running, startCbs, invoked, thrown,
                 errorTasks>>
  /\ lastCall' = NoCall
  /\ UNCHANGED sideVars

\* doSchedule / doCancel while they are `noop`
NoopCall ==
  UNCHANGED <<hstate, abort, regVars, nextCb, owner, tickVars, cancelled, errorTasks>>

DoScheduleNoCancel(h, rawMs) ==
  LET key == NormalizeDelay(rawMs)
      R2 == GetOrCreateScheduler(Registry, key)
      g == R2.schedulers[key]
      R3 == SchedulerAdd(R2, g, nextCb)
  IN /\ nextCb <= MaxCbs
     /\ Registry.schedulers[key] = NoGroup => nextGroup <= MaxGroups
     /\ SetRegistry(R3)
     /\ abort' = [abort EXCEPT ![h] = [g |-> g, cb |-> nextCb]]
     /\ owner' = [owner EXCEPT ![nextCb] = h]
     /\ nextCb' = nextCb + 1
     /\ UNCHANGED <<hstate, disp, idx, running, startCbs, invoked, thrown, errorTasks,
                    cancelled>>

\* The same function is registered whatever the manager: no wrapper is made.
WrapperShared == CHOOSE c \in CbIds : \A d \in CbIds : c <= d

\* () => { cb(...args) }: a closure created by this call of doSchedule
Wrapper == nextCb

\* doSchedule of a running effect:
\*   doCancel(); abort = getOrCreateScheduler(Math.max(ms | 0, 0))(() => { cb(...args) })
DoSchedule(h, rawMs) ==
  LET key == NormalizeDelay(rawMs)
      R1 == DoCancelReg(Registry, h)
      R2 == GetOrCreateScheduler(R1, key)
      g == R2.schedulers[key]
      R3 == SchedulerAdd(R2, g, Wrapper)
  IN /\ nextCb <= MaxCbs
     /\ R1.schedulers[key] = NoGroup => R1.nextGroup <= MaxGroups
     /\ SetRegistry(R3)
     /\ NoteCancel(h)
     /\ abort' = [abort EXCEPT ![h] = [g |-> g, cb |-> Wrapper]]
     /\ owner' = [owner EXCEPT ![Wrapper] = h]
     /\ nextCb' = nextCb + 1
     /\ UNCHANGED <<hstate, disp, idx, running, startCbs, invoked, thrown, errorTasks>>

\* doCancel that keeps its stale `abort` and splices without checking the index
\* (splice(-1, 1) removes the last element).
DoCancelStale(h) ==
  LET g == abort[h].g
      index == IndexOf(callbacks[g], abort[h].cb)
      at == IF index = -1 THEN Len(callbacks[g]) - 1 ELSE index
      cut == IF Len(callbacks[g]) = 0
             THEN Registry
             ELSE [Registry EXCEPT !.callbacks[g] = Splice(@, at)]
      R == IF Len(cut.callbacks[g]) = 0 THEN ClearTimeout(SchedulersDelete(cut, g), g) ELSE cut
  IN /\ IF abort[h] # NoAbort THEN SetRegistry(R) ELSE UNCHANGED regVars
     /\ NoteCancel(h)
     /\ UNCHANGED <<abort, hstate, nextCb, owner, disp, idx, running, startCbs, invoked,
                    thrown, errorTasks>>

\* doCancel of a running effect
DoCancel(h) ==
  /\ SetRegistry(DoCancelReg(Registry, h))
  /\ NoteCancel(h)
  /\ abort' = [abort EXCEPT ![h] = NoAbort]
  /\ UNCHANGED <<hstate, nextCb, owner, disp, idx, running, startCbs, invoked, thrown,
                 errorTasks>>

ScheduleUngated(h, rawMs) ==
  /\ UserCodeRuns
  /\ lastCall' = [h |-> h, op |-> "schedule", ms |-> rawMs]
  /\ DoSchedule(h, rawMs)
  /\ UNCHANGED sideVars

\* manager.schedule(cb, ms, ...args) -> doSchedule(cb, ms, args)
Schedule(h, rawMs) ==
  /\ UserCodeRuns
  /\ lastCall' = [h |-> h, op |-> "schedule", ms |-> rawMs]
  /\ IF hstate[h] = "attached" THEN DoSchedule(h, rawMs) ELSE NoopCall
  /\ UNCHANGED sideVars

\* manager.cancel() -> doCancel()
Cancel(h) ==
  /\ UserCodeRuns
  /\ lastCall' = [h |-> h, op |-> "cancel"]
  /\ IF hstate[h] = "attached" THEN DoCancel(h) ELSE NoopCall
  /\ UNCHANGED sideVars

\* A pending timeout of group g fires: invokeCallbacks starts its for-of loop.
Fire(g) ==
  /\ disp = NoGroup
  /\ timers[g] > 0
  /\ timers' = [timers EXCEPT ![g] = @ - 1]
  /\ disp' = g
  /\ idx' = 0
  /\ running' = NoCb
  /\ startCbs' = Range(callbacks[g])
  /\ invoked' = << >>
  /\ thrown' = {}
  /\ UNCHANGED <<hstate, abort, schedulers, ms, callbacks, nextGroup, nextCb, owner,
                 cancelled, errorTasks>>
  /\ lastCall' = NoCall
  /\ UNCHANGED sideVars

\* One step of the array iterator: index < callbacks.length, so the element at
\* the index is taken, the index advances and the loop body calls cb().
Invoke ==
  /\ disp # NoGroup
  /\ running = NoCb
  /\ idx < Len(callbacks[disp])
  /\ running' = callbacks[disp][idx + 1]
  /\ invoked' = Append(invoked, callbacks[disp][idx + 1])
  /\ idx' = idx + 1
  /\ UNCHANGED <<hstate, abort, regVars, nextCb, owner, disp, startCbs, thrown,
                 cancelled, errorTasks>>
  /\ lastCall' = NoCall
  /\ UNCHANGED sideVars

\* cb() returns normally.
Return ==
  /\ running # NoCb
  /\ running' = NoCb
  /\ UNCHANGED <<hstate, abort, regVars, nextCb, owner, disp, idx, startCbs, invoked,
                 thrown, cancelled, errorTasks>>
  /\ lastCall' = NoCall
  /\ UNCHANGED sideVars

\* cb() throws: catch (e) { setTimeout(() => { throw e }) }
Throw ==
  /\ running # NoCb
  /\ errorTasks < MaxErrors
  /\ running' = NoCb
  /\ thrown' = thrown \cup {running}
  /\ errorTasks' = errorTasks + 1
  /\ UNCHANGED <<hstate, abort, regVars, nextCb, owner, disp, idx, startCbs, invoked,
                 cancelled>>
  /\ lastCall' = NoCall
  /\ UNCHANGED sideVars

RearmNoTimer ==
  /\ disp # NoGroup
  /\ running = NoCb
  /\ idx >= Len(callbacks[disp])
  /\ disp' = NoGroup
  /\ idx' = 0
  /\ startCbs' = {}
  /\ invoked' = << >>
  /\ thrown' = {}
  /\ UNCHANGED <<hstate, abort, regVars, nextCb, owner, running, cancelled, errorTasks>>
  /\ lastCall' = NoCall
  /\ UNCHANGED sideVars

\* The iterator is exhausted: timeout = setTimeout(invokeCallbacks, ms)
Rearm ==
  /\ disp # NoGroup
  /\ running = NoCb
  /\ idx >= Len(callbacks[disp])
  /\ SetRegistry(SetTimeout(Registry, disp))
  /\ disp' = NoGroup
  /\ idx' = 0
  /\ startCbs' = {}
  /\ invoked' = << >>
  /\ thrown' = {}
  /\ UNCHANGED <<hstate, abort, nextCb, owner, running, cancelled, errorTasks>>
  /\ lastCall' = NoCall
  /\ UNCHANGED sideVars

\* The deferred task rethrows e to the host's uncaught-error channel.
RunErrorTask ==
  /\ disp = NoGroup
  /\ errorTasks > 0
  /\ errorTasks' = errorTasks - 1
  /\ UNCHANGED <<hstate, abort, regVars, nextCb, owner, tickVars, cancelled>>
  /\ lastCall' = NoCall
  /\ UNCHANGED sideVars

Next ==
  \/ \E h \in Handles : Attach(h)
  \/ \E h \in Handles : Detach(h)
  \/ \E h \in Handles, r \in RawDelays : Schedule(h, r)
  \/ \E h \in Handles : Cancel(h)
  \/ \E g \in GroupIds : Fire(g)
  \/ Invoke
  \/ Return
  \/ Throw
  \/ Rearm
  \/ RunErrorTask

Spec == Init /\ [][Next]_vars

\* The host's event loop runs every timer that is due once the stack is empty
\* (a pending timeout may have to wait for other dispatches, hence strong
\* fairness), callbacks run to completion, and so does the dispatch loop.
FairSpec ==
  /\ Spec
  /\ \A g \in GroupIds : SF_vars(Fire(g))
  /\ WF_vars(Invoke)
  /\ WF_vars(Return)
  /\ WF_vars(Rearm)

\* ------------------------------------------------------- useMetronome
\* Metronome.add: appends the callback unless the group already holds it.
MetronomeAdd(cbs, k, c) ==
  IF IndexOf(cbs[k], c) = -1 THEN [cbs EXCEPT ![k] = Append(@, c)] ELSE cbs

\* Metronome.remove: removes the callback if the group holds it.
MetronomeRemove(cbs, k, c) ==
  IF IndexOf(cbs[k], c) = -1 THEN cbs ELSE [cbs EXCEPT ![k] = Splice(@, IndexOf(@, c))]

\* stop: cleanup?.(), where cleanup is () => { metronome.remove(callback) }
MStopCallbacks(h) ==
  IF mcleanup[h] = NoCleanup
  THEN mcallbacks
  ELSE MetronomeRemove(mcallbacks, mcleanup[h].key, mcleanup[h].cb)

\* The useInterval scheduler is in its initial state: the two hooks share no
\* state, so each is explored with the other at rest.
IntervalIdle ==
  /\ \A h \in Handles : hstate[h] = "unmounted"
  /\ lastCall = NoCall

MetronomeIdle ==
  /\ mcleanup = [h \in Handles |-> NoCleanup]
  /\ mnextWrap = NumFns + 1

\* start(cb, ms, ...args):
\*   stop(); metronome = provider.getMetronome(ms);
\*   callback = args.length === 0 ? cb : () => { cb(...args) };
\*   metronome.add(callback); cleanup = () => { metronome.remove(callback) }
MStart(h, fn, key, hasArgs) ==
  LET callback == IF hasArgs THEN mnextWrap ELSE fn
  IN /\ IntervalIdle
     /\ hasArgs => mnextWrap <= NumFns + MaxWraps
     /\ mcallbacks' = MetronomeAdd(MStopCallbacks(h), key, callback)
     /\ mcleanup' = [mcleanup EXCEPT ![h] = [key |-> key, cb |-> callback]]
     /\ mnextWrap' = IF hasArgs THEN mnextWrap + 1 ELSE mnextWrap
     /\ madded' = [madded EXCEPT ![h] = (@ \ {mcleanup[h]}) \cup {[key |-> key, cb |-> callback]}]
     /\ UNCHANGED <<intervalVars, hoverVars, debounceVars>>

\* stop(), also the cleanup of the manager's effect: cleanup?.(); cleanup = undefined
MStop(h) ==
  /\ IntervalIdle
  /\ mcleanup[h] # NoCleanup
  /\ mcallbacks' = MStopCallbacks(h)
  /\ mcleanup' = [mcleanup EXCEPT ![h] = NoCleanup]
  /\ madded' = [madded EXCEPT ![h] = @ \ {mcleanup[h]}]
  /\ UNCHANGED <<intervalVars, mnextWrap, hoverVars, debounceVars>>

\* Either hook's managers at work, the other hook at rest.
HandlesNext ==
  \/ MetronomeIdle /\ Next
  \/ \E h \in Handles, fn \in MFns, k \in DelayKeys, a \in BOOLEAN : MStart(h, fn, k, a)
  \/ \E h \in Handles : MStop(h)

SpecHandles == Init /\ [][HandlesNext]_vars

\* ------------------------------------------------------------ useHover
\* What the handlers of the hover managers read and write, as one value; the
\* log starts empty at every operation.
Hover == [status |-> status, hovered |-> hovered, subs |-> subscribers,
          hlog |-> [m \in Managers |-> << >>]]

\* the last onHoverStart / onHoverEnd call made so far
LastNote(m) ==
  LET se == SelectSeq(hlog[m], LAMBDA n : n \in {"start", "end"})
  IN IF se = << >> THEN prevNote[m] ELSE se[Len(se)]

SetHover(H, op, m) ==
  /\ status' = H.status
  /\ hovered' = H.hovered
  /\ subscribers' = H.subs
  /\ hlog' = H.hlog
  /\ prevNote' = [x \in Managers |-> LastNote(x)]
  /\ hop' = [op |-> op, m |-> m]

RECURSIVE HCancel(_, _, _, _)
RECURSIVE HPublishFrom(_, _, _, _)

\* One of the user's handlers is called; `re` is the set of handlers whose
\* code calls cancelHover(), at most MaxReentry calls deep.
HUserHandler(H, m, n, re, d) ==
  LET called == [H EXCEPT !.hlog[m] = Append(@, n)]
  IN IF n \in re /\ d < MaxReentry THEN HPublishFrom(called, 1, re, d + 1) ELSE called

HCancelAlways(H, m, re, d) ==
  LET H1 == [H EXCEPT !.status[m] = STATUS_NOT_HOVERED, !.hovered[m] = FALSE]
      H2 == HUserHandler(H1, m, "changeFalse", re, d)
  IN HUserHandler(H2, m, "end", re, d)

\* cancel of a manager
HCancel(H, m, re, d) ==
  IF H.status[m] # STATUS_HOVERED
  THEN [H EXCEPT !.status[m] = STATUS_NOT_HOVERED]
  ELSE LET H1 == [H EXCEPT !.status[m] = STATUS_NOT_HOVERED, !.hovered[m] = FALSE]
           H2 == HUserHandler(H1, m, "changeFalse", re, d)
       IN HUserHandler(H2, m, "end", re, d)

\* cancelHoverPubSub.publish(): the listeners from the i-th on, in subscription order
HPublishFrom(H, i, re, d) ==
  IF i > Len(H.subs) THEN H ELSE HPublishFrom(HCancel(H, H.subs[i], re, d), i + 1, re, d)

\* cancelHover()
HPublish(H, re) == HPublishFrom(H, 1, re, 0)

\* handleUpdate
HandleUpdate(H, m, re) == IF disabled[m] THEN HCancel(H, m, re, 0) ELSE H

HandlePointerHoverEnabled(H, m, mouse, noButtons, portal, re) ==
  IF ~mouse /\ H.status[m] = STATUS_NOT_HOVERED
  THEN [H EXCEPT !.status[m] = STATUS_HOVER_DISCARDED]
  ELSE IF mouse /\ H.status[m] = STATUS_HOVER_DISCARDED
  THEN [H EXCEPT !.status[m] = STATUS_NOT_HOVERED]
  ELSE IF H.status[m] # STATUS_NOT_HOVERED \/ ~mouse \/ ~noButtons \/ portal
  THEN H
  ELSE LET H1 == [H EXCEPT !.status[m] = STATUS_HOVERED, !.hovered[m] = TRUE]
           H2 == HUserHandler(H1, m, "changeTrue", re, 0)
       IN HUserHandler(H2, m, "start", re, 0)

\* handlePointerHover, the onPointerEnter and onPointerMove handler
HandlePointerHover(H, m, mouse, noButtons, portal, re) ==
  IF ~mouse /\ H.status[m] = STATUS_NOT_HOVERED
  THEN [H EXCEPT !.status[m] = STATUS_HOVER_DISCARDED]
  ELSE IF mouse /\ H.status[m] = STATUS_HOVER_DISCARDED
  THEN [H EXCEPT !.status[m] = STATUS_NOT_HOVERED]
  ELSE IF disabled[m] \/ H.status[m] # STATUS_NOT_HOVERED \/ ~mouse \/ ~noButtons \/ portal
  THEN H
  ELSE LET H1 == [H EXCEPT !.status[m] = STATUS_HOVERED, !.hovered[m] = TRUE]
           H2 == HUserHandler(H1, m, "changeTrue", re, 0)
       IN HUserHandler(H2, m, "start", re, 0)

\* handlePointerLeave
HandlePointerLeave(H, m, mouse, portal, re) ==
  IF H.status[m] # STATUS_HOVERED \/ ~mouse \/ portal THEN H ELSE HCancel(H, m, re, 0)

\* The layout effects of a mount: handleMount, then handleUpdate.
HMount(m, re) ==
  /\ ~hmounted[m]
  /\ hmounted' = [hmounted EXCEPT ![m] = TRUE]
  /\ hoverManagerCount' = hoverManagerCount + 1
  /\ IF hoverManagerCount' = 1
     THEN blurAttached' = TRUE /\ blurTwice' = (blurTwice \/ blurAttached)
     ELSE UNCHANGED <<blurAttached, blurTwice>>
  /\ SetHover(HandleUpdate([Hover EXCEPT !.subs = Append(@, m)], m, re), "mount", m)
  /\ UNCHANGED <<disabled, intervalVars, metronomeVars, debounceVars>>

HUnmountPreDecrement(m) ==
  /\ hmounted[m]
  /\ hmounted' = [hmounted EXCEPT ![m] = FALSE]
  /\ hoverManagerCount' = hoverManagerCount - 1
  /\ blurAttached' = IF hoverManagerCount' = 1 THEN FALSE ELSE blurAttached
  /\ SetHover([Hover EXCEPT !.subs = SelectSeq(@, LAMBDA x : x # m)], "unmount", m)
  /\ UNCHANGED <<blurTwice, disabled, intervalVars, metronomeVars, debounceVars>>

\* The cleanup handleMount returned.
HUnmount(m) ==
  /\ hmounted[m]
  /\ hmounted' = [hmounted EXCEPT ![m] = FALSE]
  /\ hoverManagerCount' = hoverManagerCount - 1
  /\ blurAttached' = IF hoverManagerCount = 1 THEN FALSE ELSE blurAttached
  /\ SetHover([Hover EXCEPT !.subs = SelectSeq(@, LAMBDA x : x # m)], "unmount", m)
  /\ UNCHANGED <<blurTwice, disabled, intervalVars, metronomeVars, debounceVars>>

\* A render of useHover(props): manager.props = props
HRender(m, isDisabled) ==
  /\ disabled' = [disabled EXCEPT ![m] = isDisabled]
  /\ SetHover(Hover, "render", m)
  /\ UNCHANGED <<hmounted, hoverManagerCount, blurAttached, blurTwice,
                 intervalVars, metronomeVars, debounceVars>>

\* The layout effect of an update of a mounted component: handleUpdate
HCommit(m, re) ==
  /\ hmounted[m]
  /\ SetHover(HandleUpdate(Hover, m, re), "commit", m)
  /\ UNCHANGED <<hmounted, disabled, hoverManagerCount, blurAttached, blurTwice,
                 intervalVars, metronomeVars, debounceVars>>

\* A pointerenter / pointermove event on the element of a mounted manager
HPointerHover(m, mouse, noButtons, portal, re) ==
  /\ hmounted[m]
  /\ SetHover(HandlePointerHover(Hover, m, mouse, noButtons, portal, re),
              IF mouse THEN "hover" ELSE "hoverNonMouse", m)
  /\ UNCHANGED <<hmounted, disabled, hoverManagerCount, blurAttached, blurTwice,
                 intervalVars, metronomeVars, debounceVars>>

\* A pointerleave event on the element of a mounted manager
HPointerLeave(m, mouse, portal, re) ==
  /\ hmounted[m]
  /\ SetHover(HandlePointerLeave(Hover, m, mouse, portal, re),
              IF mouse THEN "leave" ELSE "leaveNonMouse", m)
  /\ UNCHANGED <<hmounted, disabled, hoverManagerCount, blurAttached, blurTwice,
                 intervalVars, metronomeVars, debounceVars>>

\* cancelHover() called by the application
HCancelHover(re) ==
  /\ SetHover(HPublish(Hover, re), "cancelHover", 0)
  /\ UNCHANGED <<hmounted, disabled, hoverManagerCount, blurAttached, blurTwice,
                 intervalVars, metronomeVars, debounceVars>>

\* A 'blur' event of the window while the listener is attached
HWindowBlur(re) ==
  /\ blurAttached
  /\ SetHover(HPublish(Hover, re), "blur", 0)
  /\ UNCHANGED <<hmounted, disabled, hoverManagerCount, blurAttached, blurTwice,
                 intervalVars, metronomeVars, debounceVars>>

HoverNext ==
  \/ \E m \in Managers, re \in Reentrant : HMount(m, re)
  \/ \E m \in Managers : HUnmount(m)
  \/ \E m \in Managers, d \in BOOLEAN : HRender(m, d)
  \/ \E m \in Managers, re \in Reentrant : HCommit(m, re)
  \/ \E m \in Managers, mouse, nb, portal \in BOOLEAN, re \in Reentrant :
       HPointerHover(m, mouse, nb, portal, re)
  \/ \E m \in Managers, mouse, portal \in BOOLEAN, re \in Reentrant :
       HPointerLeave(m, mouse, portal, re)
  \/ \E re \in Reentrant : HCancelHover(re)
  \/ \E re \in Reentrant : HWindowBlur(re)

SpecHover == Init /\ [][HoverNext]_vars

\* ------------------------------------------------------------ useDebounce
\* The timeouts of a manager armed so far: each is followed by the call that is
\* being made.
DNoteLater(h) == dlater' = dlater \cup {t \in TimeoutIds : downer[t] = h}

\* cancel(): clearTimeout(timeout); clearing a fired or cleared timeout does nothing
DClear(h) == dpending \ {dtimeout[h]}

DNoteCleared(h, call) ==
  dclearedBy' = IF dtimeout[h] \in dpending
                THEN [dclearedBy EXCEPT ![dtimeout[h]] = call]
                ELSE dclearedBy

DebounceNoCancel(h) ==
  /\ dnextTimeout <= MaxTimeouts
  /\ dpending' = dpending \cup {dnextTimeout}
  /\ dtimeout' = [dtimeout EXCEPT ![h] = dnextTimeout]
  /\ downer' = [downer EXCEPT ![dnextTimeout] = h]
  /\ dnextTimeout' = dnextTimeout + 1
  /\ DNoteLater(h)
  /\ UNCHANGED dclearedBy
  /\ UNCHANGED <<dmounted, dfired, intervalVars, metronomeVars, hoverVars>>

\* debounce(...args): cancel(); timeout = setTimeout(...args)
Debounce(h) ==
  /\ dnextTimeout <= MaxTimeouts
  /\ dpending' = DClear(h) \cup {dnextTimeout}
  /\ dtimeout' = [dtimeout EXCEPT ![h] = dnextTimeout]
  /\ downer' = [downer EXCEPT ![dnextTimeout] = h]
  /\ dnextTimeout' = dnextTimeout + 1
  /\ DNoteLater(h)
  /\ DNoteCleared(h, "debounce")
  /\ UNCHANGED <<dmounted, dfired, intervalVars, metronomeVars, hoverVars>>

\* cancel() called through the protocol
DCancel(h) ==
  /\ dpending' = DClear(h)
  /\ DNoteLater(h)
  /\ DNoteCleared(h, "cancel")
  /\ UNCHANGED <<dmounted, dtimeout, dnextTimeout, downer, dfired,
                 intervalVars, metronomeVars, hoverVars>>

\* useEffectOnce(manager._effect) on mount: the effect only returns `cancel`
DMount(h) ==
  /\ ~dmounted[h]
  /\ dmounted' = [dmounted EXCEPT ![h] = TRUE]
  /\ UNCHANGED <<dtimeout, dpending, dnextTimeout, downer, dlater, dfired, dclearedBy,
                 intervalVars, metronomeVars, hoverVars>>

\* The cleanup of the effect on unmount: cancel()
DUnmount(h) ==
  /\ dmounted[h]
  /\ dmounted' = [dmounted EXCEPT ![h] = FALSE]
  /\ dpending' = DClear(h)
  /\ DNoteLater(h)
  /\ DNoteCleared(h, "unmount")
  /\ UNCHANGED <<dtimeout, dnextTimeout, downer, dfired,
                 intervalVars, metronomeVars, hoverVars>>

\* A pending timeout fires: the host runs the debounced callback once.
DFire(t) ==
  /\ t \in dpending
  /\ dpending' = dpending \ {t}
  /\ dfired' = dfired \cup {t}
  /\ UNCHANGED <<dmounted, dtimeout, dnextTimeout, downer, dlater, dclearedBy,
                 intervalVars, metronomeVars, hoverVars>>

DebounceNext ==
  \/ \E h \in Handles : Debounce(h)
  \/ \E h \in Handles : DCancel(h)
  \/ \E h \in Handles : DMount(h)
  \/ \E h \in Handles : DUnmount(h)
  \/ \E t \in TimeoutIds : DFire(t)

SpecDebounce == Init /\ [][DebounceNext]_vars

\* ------------------------------------------------------------ typing
TypeOK ==
  /\ hstate \in [Handles -> {"unmounted", "attached", "detached"}]
  /\ \A h \in Handles : abort[h] = NoAbort \/ (abort[h].g \in GroupIds /\ abort[h].cb \in CbIds)
  /\ \A k \in DelayKeys : schedulers[k] \in GroupIds \cup {NoGroup}
  /\ \A g \in GroupIds : timers[g] \in Nat
  /\ disp \in GroupIds \cup {NoGroup}
  /\ running \in CbIds \cup {NoCb}
  /\ errorTasks \in 0..MaxErrors

\* ------------------------------------------------------------ helpers of the claims
Created == 1..(nextGroup - 1)

Registered == UNION {Range(callbacks[g]) : g \in GroupIds}

\* invokeCallbacks has run its loop to the end and is about to re-arm.
LoopExit == disp # NoGroup /\ running = NoCb /\ idx >= Len(callbacks[disp])

Count(s, c) == Cardinality({i \in 1..Len(s) : s[i] = c})

\* ------------------------------------------------------------ claims
\* C1: between operations a timer group has a pending timer if and only if its
\* callback array is non-empty; a group whose last callback was removed has no
\* timer left and never ticks again.
C1_TimerIffCallbacks ==
  disp = NoGroup => \A g \in GroupIds : (timers[g] > 0) <=> (callbacks[g] # << >>)

\* C2: when a tick's dispatch loop ends, every callback that was in the group
\* when the tick began and is still in it has been invoked exactly once.
C2_PresentInvokedOnce ==
  LoopExit =>
    \A c \in startCbs \cap Range(callbacks[disp]) : Count(invoked, c) = 1

\* C3: a callback added to a group while the group's tick is dispatching is
\* not invoked in that tick: every callback a tick invokes was in the group
\* when the tick began.
C3_AddedNotInvokedSameTick ==
  \A i \in 1..Len(invoked) : invoked[i] \in startCbs

\* C4: for every delay at most one timer is pending in the whole process.
C4_OneTimerPerDelay ==
  \A k \in DelayKeys :
    /\ Cardinality({g \in Created : ms[g] = k /\ timers[g] > 0}) <= 1
    /\ \A g \in Created : timers[g] <= 1

\* C5: once abort() has returned for a callback, no tick invokes that callback
\* again, the rest of a tick in progress included.
C5_CancelledNeverInvoked ==
  [][(running = NoCb /\ running' # NoCb) => running' \notin cancelled]_vars

\* A callback that was in the group when the tick began was cancelled during
\* the tick before the loop reached it, and the loop ended without invoking it.
C5_Witness ==
  /\ LoopExit
  /\ \E c \in startCbs \cap cancelled : Count(invoked, c) = 0

\* C6: within a tick callbacks are invoked in the order in which they were
\* added (wrapper closures are numbered in creation order, and a closure is
\* added to its group when it is created); removing one callback leaves the
\* others in their group, in the same order, and the group mapped and ticking.
C6_OrderInv ==
  /\ \A i, j \in 1..Len(invoked) : i < j => invoked[i] < invoked[j]
  /\ \A g \in GroupIds :
       callbacks[g] # << >> =>
         /\ schedulers[ms[g]] = g
         /\ (timers[g] = 1 \/ disp = g)

C6_RemovalKeepsOthers ==
  \A g \in GroupIds :
    \A b \in Range(callbacks[g]) :
      b \notin cancelled' =>
        /\ b \in Range(callbacks'[g])
        /\ \A a \in Range(callbacks[g]) :
             (a \in Range(callbacks'[g])
              /\ IndexOf(callbacks[g], a) < IndexOf(callbacks[g], b))
               => IndexOf(callbacks'[g], a) < IndexOf(callbacks'[g], b)

C6_InsertionOrder == [](C6_OrderInv) /\ [][C6_RemovalKeepsOthers]_vars

\* Two callbacks are invoked in one tick, in the order they were added, after
\* an older callback of the same group was removed.
C6_Witness ==
  /\ Len(invoked) >= 2
  /\ \E c \in cancelled : c < invoked[1]

\* C7: a callback that throws during a tick does not stop the dispatch loop:
\* when the loop ends, every callback that comes later in the group's sequence
\* (it was added after the thrower, was in the group when the tick began and
\* is still in it) has been invoked in that tick.
C7_LaterCallbacksStillInvoked ==
  LoopExit =>
    \A t \in thrown :
      \A c \in startCbs \cap Range(callbacks[disp]) :
        c > t => Count(invoked, c) >= 1

\* C8: between operations the registry maps a delay to a group if and only if
\* that group's callback array is non-empty: every mapped group has callbacks
\* and is mapped at its own delay, and every group with callbacks is the one
\* mapped at its delay (so no two such groups share a delay, and emptying one
\* group never unmaps another).
C8_RegistryIffNonEmpty ==
  disp = NoGroup =>
    /\ \A k \in DelayKeys :
         schedulers[k] # NoGroup =>
           /\ schedulers[k] \in Created
           /\ ms[schedulers[k]] = k
           /\ callbacks[schedulers[k]] # << >>
    /\ \A g \in GroupIds : callbacks[g] # << >> => schedulers[ms[g]] = g

\* Two groups of one delay exist, the older one emptied by a removal and
\* unmapped, the newer one mapped with a callback; another delay is unmapped.
C8_Witness ==
  /\ disp = NoGroup
  /\ \E g1, g2 \in Created :
       /\ g1 < g2
       /\ ms[g1] = ms[g2]
       /\ callbacks[g1] = << >>
       /\ callbacks[g2] # << >>
       /\ schedulers[ms[g2]] = g2
  /\ \E k \in DelayKeys : schedulers[k] = NoGroup
  /\ cancelled # {}

\* The program state a schedule / cancel call can touch.
progVars == <<hstate, abort, schedulers, ms, callbacks, timers, nextGroup, nextCb, owner>>

\* C9: after the effect's cleanup has run, the manager owns no registration
\* (its active one was cancelled by the cleanup), and every later schedule or
\* cancel call on it changes nothing: no callback, no timer, no group.
C9_DetachedInv ==
  \A h \in Handles :
    hstate[h] = "detached" =>
      /\ abort[h] = NoAbort
      /\ \A c \in Registered : owner[c] # h

C9_DetachedCallNoop ==
  (lastCall' # NoCall /\ hstate[lastCall'.h] = "detached")
    => UNCHANGED <<progVars, tickVars, cancelled, errorTasks>>

C9_TeardownIsFinal == [](C9_DetachedInv) /\ [][C9_DetachedCallNoop]_vars

\* schedule was just called on a manager that was torn down while it had an
\* active registration, and callbacks of another manager are still registered.
C9_Witness ==
  /\ lastCall.op = "schedule"
  /\ hstate[lastCall.h] = "detached"
  /\ \E c \in cancelled : owner[c] = lastCall.h
  /\ Registered # {}

\* C10: before the effect has run, schedule and cancel change nothing: the
\* manager has created no wrapper closure at all (so none can be invoked) and
\* a call leaves the registry, the groups and the timers as they were; on an
\* attached manager, schedule leaves the new closure registered in the group
\* mapped at its delay, whose timer is pending or whose tick is dispatching.
C10_UnmountedInv ==
  \A h \in Handles :
    hstate[h] = "unmounted" =>
      /\ abort[h] = NoAbort
      /\ \A c \in CbIds : owner[c] # h

C10_CallBeforeAttachNoop ==
  (lastCall' # NoCall /\ hstate[lastCall'.h] = "unmounted")
    => UNCHANGED <<progVars, tickVars, cancelled, errorTasks>>

C10_ScheduleAfterAttach ==
  (lastCall'.op = "schedule" /\ hstate[lastCall'.h] = "attached") =>
    LET a == abort'[lastCall'.h]
    IN /\ a # NoAbort
       /\ a.cb = nextCb
       /\ a.cb \in Range(callbacks'[a.g])
       /\ schedulers'[ms'[a.g]] = a.g
       /\ (timers'[a.g] = 1 \/ disp' = a.g)

C10_NoopBeforeAttach ==
  /\ [](C10_UnmountedInv)
  /\ [][C10_CallBeforeAttachNoop /\ C10_ScheduleAfterAttach]_vars

\* schedule has just been called on a manager whose effect has not run, from
\* inside a callback that an attached manager scheduled and a tick is invoking.
C10_Witness ==
  /\ lastCall.op = "schedule"
  /\ hstate[lastCall.h] = "unmounted"
  /\ running # NoCb
  /\ hstate[owner[running]] = "attached"
  /\ abort[owner[running]].cb = running

\* C11: a manager has at most one callback registered at any time, the one its
\* abort / cleanup closure removes; a schedule / start call on a manager that
\* has a registration removes that registration from its group first.
C11_OnePerHandleInv ==
  /\ \A h \in Handles :
       LET mine == {c \in Registered : owner[c] = h}
       IN /\ Cardinality(mine) <= 1
          /\ mine = IF abort[h] = NoAbort THEN {} ELSE {abort[h].cb}
  /\ \A h \in Handles :
       /\ Cardinality(madded[h]) <= 1
       /\ madded[h] = IF mcleanup[h] = NoCleanup THEN {} ELSE {mcleanup[h]}

C11_ReplacesPrevious ==
  /\ \A h \in Handles :
       (abort[h] # NoAbort /\ abort'[h] # abort[h]) =>
         /\ abort[h].cb \notin UNION {Range(callbacks'[g]) : g \in GroupIds}
         /\ abort[h].cb \in cancelled'
  /\ \A h \in Handles :
       (mcleanup[h] # NoCleanup /\ mcleanup'[h] # mcleanup[h]) =>
         mcleanup[h].cb \notin Range(mcallbacks'[mcleanup[h].key])

C11_OneRegistrationPerHandle ==
  [](C11_OnePerHandleInv) /\ [][C11_ReplacesPrevious]_vars

\* schedule(A, d1) then schedule(B, d2) on one manager: its first closure is
\* cancelled, the group of d1 is empty, and B is registered at another delay.
C11_Witness ==
  /\ lastCall.op = "schedule"
  /\ abort[lastCall.h] # NoAbort
  /\ \E c \in cancelled : owner[c] = lastCall.h
  /\ \E g \in Created : ms[g] # ms[abort[lastCall.h].g] /\ callbacks[g] = << >>

\* C12: with timers firing fairly, a callback that stays registered from some
\* point on is invoked again and again, whatever other callbacks throw, add
\* or remove in the ticks of its group.
C12_RegisteredInvokedInfinitelyOften ==
  \A c \in CbIds : (<>[](c \in Registered)) => ([]<>(running = c))

\* A callback is being invoked in a tick that follows one in which a callback
\* threw (its error task is still pending) and after a registration was removed.
C12_Witness ==
  /\ running # NoCb
  /\ running \notin cancelled
  /\ thrown = {}
  /\ errorTasks > 0
  /\ cancelled # {}

\* C13: cancel() is idempotent: a cancel() that directly follows a cancel() on
\* the same manager changes nothing, and so does a cancel() on a manager that
\* has nothing registered.
C13_SecondCancelNoop ==
  (lastCall.op = "cancel" /\ lastCall' = lastCall)
    => UNCHANGED <<progVars, tickVars, cancelled, errorTasks>>

C13_CancelNothingNoop ==
  (lastCall'.op = "cancel" /\ abort[lastCall'.h] = NoAbort)
    => UNCHANGED <<progVars, tickVars, cancelled, errorTasks>>

C13_CancelIdempotent == [][C13_SecondCancelNoop /\ C13_CancelNothingNoop]_vars

\* cancel() was just called on an attached manager that had registered a
\* callback; nothing of it is registered now, and another manager's callback
\* still is, in a group whose timer is pending.
C13_Witness ==
  /\ lastCall.op = "cancel"
  /\ hstate[lastCall.h] = "attached"
  /\ abort[lastCall.h] = NoAbort
  /\ \E c \in cancelled : owner[c] = lastCall.h
  /\ \E g \in Created : callbacks[g] # << >> /\ timers[g] = 1

\* C14: the registry key used by schedule(cb, delayMs) is the non-negative
\* integer max(delayMs reduced to a signed 32-bit integer, 0); every negative
\* delay is keyed as 0; no error is raised; and two handles whose delays
\* normalize to the same value are in the same group.
C14_IsNegative(rawMs) == rawMs.hi < 0

\* the key of the group the last schedule() call registered in
C14_Key == ms[abort[lastCall.h].g]

C14_Scheduled == lastCall.op = "schedule" /\ hstate[lastCall.h] = "attached"

\* the key is max(w, 0) for the w in -2^31 .. 2^31 - 1 congruent to delayMs modulo 2^32
C14_KeyIsClampedInt32 ==
  C14_Scheduled =>
    /\ C14_Key >= 0
    /\ \E q \in -2..2 :
         LET w == lastCall.ms.hi - q * Half
         IN /\ w >= -(Half \div 2)
            /\ w < Half \div 2
            /\ C14_Key = Max(w * Half + lastCall.ms.lo, 0)

C14_NegativeKeyedZero ==
  (C14_Scheduled /\ C14_IsNegative(lastCall.ms)) => C14_Key = 0

C14_SameKeySameGroup ==
  \A h1, h2 \in Handles :
    (abort[h1] # NoAbort /\ abort[h2] # NoAbort /\ ms[abort[h1].g] = ms[abort[h2].g])
      => abort[h1].g = abort[h2].g

C14_NoErrorStep ==
  (lastCall'.op = "schedule") => (errorTasks' = errorTasks /\ thrown' = thrown)

C14_DelayNormalized ==
  /\ [](C14_KeyIsClampedInt32 /\ C14_NegativeKeyedZero /\ C14_SameKeySameGroup)
  /\ [][C14_NoErrorStep]_vars

\* the parts of C14 that do not speak of negative delays
C14_WithoutNegativeClause ==
  /\ [](C14_KeyIsClampedInt32 /\ C14_SameKeySameGroup)
  /\ [][C14_NoErrorStep]_vars

\* ------------------------------------------------------------ useHover claims
Mounted == {m \in Managers : hmounted[m]}

\* C15: cancelHover(), and a window blur while a hover manager is mounted,
\* leaves no mounted manager hovered; every mounted manager that was hovered
\* got setHovered(false) and exactly one onHoverChange(false) and one
\* onHoverEnd call and no other; the managers that were not hovered got no call.
C15_CancelStep ==
  (hop'.op \in {"cancelHover", "blur"}) =>
    \A m \in Managers :
      /\ hmounted[m] => status'[m] # STATUS_HOVERED
      /\ (hmounted[m] /\ status[m] = STATUS_HOVERED) =>
           /\ ~hovered'[m]
           /\ Count(hlog'[m], "changeFalse") = 1
           /\ Count(hlog'[m], "end") = 1
           /\ Len(hlog'[m]) = 2
      /\ status[m] # STATUS_HOVERED => hlog'[m] = << >>

C15_CancelHoverCancelsAll == [][C15_CancelStep]_vars

\* A window blur has just ended the hover of one mounted manager and made no
\* call on another mounted manager.
C15_Witness ==
  /\ hop.op = "blur"
  /\ \E m1, m2 \in Mounted :
       /\ hlog[m1] = <<"changeFalse", "end">>
       /\ status[m1] = STATUS_NOT_HOVERED
       /\ hlog[m2] = << >>

\* C16: while props.isDisabled is true no step starts a hover (isHovered does
\* not become true, onHoverStart and onHoverChange(true) are not called), and
\* the layout effect of an update with isDisabled true ends a hover.
C16_NoStartWhileDisabled ==
  \A m \in Managers :
    disabled[m] =>
      /\ hovered'[m] => hovered[m]
      /\ status'[m] = STATUS_HOVERED => status[m] = STATUS_HOVERED
      /\ "start" \notin Range(hlog'[m])
      /\ "changeTrue" \notin Range(hlog'[m])

C16_DisabledUpdateEndsHover ==
  (hop'.op \in {"commit", "mount"} /\ disabled[hop'.m] /\ status[hop'.m] = STATUS_HOVERED) =>
    /\ status'[hop'.m] = STATUS_NOT_HOVERED
    /\ ~hovered'[hop'.m]
    /\ Count(hlog'[hop'.m], "end") = 1

C16_DisabledNeverHovers == [][C16_NoStartWhileDisabled /\ C16_DisabledUpdateEndsHover]_vars

\* The update of a hovered element whose props became isDisabled has just
\* been committed and has ended the hover.
C16_Witness ==
  /\ hop.op = "commit"
  /\ disabled[hop.m]
  /\ hlog[hop.m] = <<"changeFalse", "end">>
  /\ ~hovered[hop.m]

\* C18: for every manager the onHoverStart and onHoverEnd calls strictly
\* alternate, beginning with a start; the value given to setHovered is true
\* exactly when the status is hovered; a non-mouse pointer event starts no hover.
C18_StartsAndEnds(m) ==
  <<prevNote[m]>> \o SelectSeq(hlog[m], LAMBDA n : n \in {"start", "end"})

C18_Alternate ==
  \A m \in Managers :
    LET se == C18_StartsAndEnds(m)
    IN \A i \in 1..(Len(se) - 1) :
         se[i + 1] = (IF se[i] = "start" THEN "end" ELSE "start")

C18_IsHoveredIffStatus ==
  \A m \in Managers : hovered[m] <=> (status[m] = STATUS_HOVERED)

C18_NonMouseNeverStarts ==
  (hop'.op \in {"hoverNonMouse", "leaveNonMouse"}) =>
    \A m \in Managers :
      /\ status'[m] = STATUS_HOVERED => status[m] = STATUS_HOVERED
      /\ hovered'[m] => hovered[m]
      /\ "start" \notin Range(hlog'[m])

C18_HoverStateMachine ==
  /\ [](C18_Alternate /\ C18_IsHoveredIffStatus)
  /\ [][C18_NonMouseNeverStarts]_vars

\* the parts of C18 other than the alternation
C18_WithoutAlternation ==
  /\ [](C18_IsHoveredIffStatus)
  /\ [][C18_NonMouseNeverStarts]_vars

\* C19: hoverManagerCount is the number of mounted managers, and the window
\* has the 'blur' listener exactly when the count is positive; the listener
\* is never added while attached.
C19_CountAndBlurListener ==
  /\ hoverManagerCount = Cardinality(Mounted)
  /\ hoverManagerCount >= 0
  /\ blurAttached <=> hoverManagerCount > 0
  /\ ~blurTwice

\* One of two mounted managers has just been unmounted: the count is 1 and
\* the listener is still attached.
C19_Witness ==
  /\ hop.op = "unmount"
  /\ hoverManagerCount = 1
  /\ Cardinality(Mounted) = 1
  /\ blurAttached

\* ------------------------------------------------------------ useDebounce claims
\* C17: a debounced callback fires only if no debounce, cancel or unmount of
\* its manager came after the debounce call that scheduled it; every manager
\* has at most one pending timeout; a timeout pending at unmount never fires.
C17_OnePendingPerHandle ==
  \A h \in Handles : Cardinality({t \in dpending : downer[t] = h}) <= 1

C17_SupersededNotPending == dpending \cap dlater = {}

C17_FiresOnlyIfLatest ==
  \A t \in TimeoutIds : (t \in dfired' /\ t \notin dfired) => t \notin dlater

C17_DebounceFiresOnlyLatest ==
  /\ [](C17_OnePendingPerHandle /\ C17_SupersededNotPending)
  /\ [][C17_FiresOnlyIfLatest]_vars

\* A timeout was cleared by a later debounce call and another by the unmount
\* of its manager; neither has fired since, and a third timeout has fired.
C17_Witness ==
  \E t1, t2 \in TimeoutIds :
    /\ dclearedBy[t1] = "debounce"
    /\ dclearedBy[t2] = "unmount"
    /\ ~dmounted[downer[t2]]
    /\ {t1, t2} \cap (dpending \cup dfired) = {}
    /\ dfired # {}

\* ------------------------------------------------------------ frame of a manager's calls
\* the callbacks of a sequence that the manager `a` did not register
C20_OfOthers(cbs, own, a) == SelectSeq(cbs, LAMBDA c : own[c] # a)

\* the manager whose schedule, cancel or effect cleanup the step is
C20_Acts(a) ==
  \/ lastCall' # NoCall /\ lastCall'.h = a
  \/ hstate[a] = "attached" /\ hstate'[a] = "detached"

\* C20: a schedule, cancel or detach of one manager leaves the registration of
\* every other manager as it was: the other managers' callbacks stay in their
\* groups in the same order, the groups the manager is not in keep their
\* callbacks and timers, a group that stays occupied keeps its timer, and a
\* manager's registered callback is removed by that manager only.
C20_FrameStep ==
  \A a \in Handles :
    C20_Acts(a) =>
      /\ \A h \in Handles \ {a} : abort'[h] = abort[h]
      /\ \A g \in GroupIds :
           /\ C20_OfOthers(callbacks'[g], owner', a) = C20_OfOthers(callbacks[g], owner, a)
           /\ (g \notin {abort[a].g, abort'[a].g}) =>
                (callbacks'[g] = callbacks[g] /\ timers'[g] = timers[g] /\ ms'[g] = ms[g])
           /\ (callbacks[g] # << >> /\ callbacks'[g] # << >>) => timers'[g] = timers[g]

C20_RegistrationStays ==
  \A h \in Handles :
    abort[h] # NoAbort =>
      /\ owner[abort[h].cb] = h
      /\ abort[h].cb \in Range(callbacks[abort[h].g])

C20_OtherHandlesUnchanged == [](C20_RegistrationStays) /\ [][C20_FrameStep]_vars

\* Two managers had scheduled with the same delay, in the only group created
\* so far; one has just cancelled, the other's callback is alone in the group
\* and the timer of the group is pending.
C20_Witness ==
  \E a, h \in Handles :
    /\ a # h
    /\ lastCall = [h |-> a, op |-> "cancel"]
    /\ abort[a] = NoAbort
    /\ \E c \in cancelled : owner[c] = a
    /\ nextGroup = 2
    /\ abort[h] # NoAbort
    /\ callbacks[abort[h].g] = <<abort[h].cb>>
    /\ timers[abort[h].g] = 1

====
